---- MODULE Spec2Model ----
(***************************************************************************)
(* PUTrace (src/server.js, src/db/schema.sql): the item lifecycle, the     *)
(* finder-report ledger and the found-post claim flow.                     *)
(*                                                                         *)
(* The relational store is the tables users, items, finder_reports and     *)
(* found_posts of schema.sql.  Every route handler is an async function:   *)
(* each `await supabase...` is one atomic store operation, and between two *)
(* awaits of one request the steps of other requests may run.  A request   *)
(* suspended at an await is a record of the bag `inflight`.                *)
(*                                                                         *)
(* Spec         the item, report and found-post handlers, every store call *)
(*              succeeding                                                 *)
(* SpecRegistry registration with the whole form, setStatus, deleteItem    *)
(*              and the Lost Board                                         *)
(* SpecUpload   registration with an image attached                        *)
(* SpecFail     Spec over a store whose writes may fail                    *)
(* SpecAccount  Spec with the account-name and password endpoints          *)
(***************************************************************************)
EXTENDS Naturals, Sequences, FiniteSets, Bags, TLC

\* ------------------------------------------------------------------ bounds
MaxItems    == 2   \* items ever registered (uuid primary keys are never reused)
MaxReports  == 2   \* finder_reports rows ever inserted (bigserial)
MaxPosts    == 1   \* found_posts rows ever inserted (bigserial)
MaxInFlight == 2   \* requests suspended at an await at the same time
MaxRequests == 4   \* requests received in one behaviour

\* ------------------------------------------------------------- value sets
Users     == {"u1", "u2"}          \* rows of public.users
NoSession == "anon"                \* req.session.userId is undefined
Actors    == Users \cup {NoSession}

NoRow     == 0                     \* `data: null` of a select that matched no single row

ItemIds   == 1..MaxItems
ReportIds == 1..MaxReports
PostIds   == 1..MaxPosts

\* crypto.randomBytes(16).toString("hex"): the hex strings a registration may
\* draw, here two of them that share their first character
GenTokens == {<<"0", "0">>, <<"0", "f">>}
\* req.params.token: any string; the generated ones, a proper prefix of both
\* and a string of the full length that is never generated
ReqTokens == GenTokens \cup {<<"0">>, <<"f", "0">>}

\* ------------------------------------------------------------ pure helpers
IsSpace(c) == c = " "

RECURSIVE TrimStart(_)
TrimStart(str) == IF str # <<>> /\ IsSpace(Head(str)) THEN TrimStart(Tail(str)) ELSE str

RECURSIVE TrimEnd(_)
TrimEnd(str) ==
  IF str # <<>> /\ IsSpace(str[Len(str)]) THEN TrimEnd(SubSeq(str, 1, Len(str) - 1)) ELSE str

\* sanitize(str): (str || "").trim()
sanitize(str) == TrimEnd(TrimStart(str))

\* isValidEmail(email): /^[^\s@]+@[^\s@]+\.[^\s@]+$/
isValidEmail(email) ==
  \E a \in 1..Len(email) : \E d \in 1..Len(email) :
     /\ email[a] = "@"
     /\ email[d] = "."
     /\ a >= 2
     /\ d >= a + 2
     /\ d <= Len(email) - 1
     /\ \A k \in 1..Len(email) : k # a => ~IsSpace(email[k]) /\ email[k] # "@"

MaxNameLen == 150
MinPersonNameLen == 2
MinMessageLen == 3

AllowedStatusesLoose == {"active", "lost", "recovered", "found"}
\* const allowed = ["active", "lost", "recovered"]
AllowedStatuses == {"active", "lost", "recovered"}

StatusAllowedTruthy(item_status) == item_status # ""
\* allowed.includes(item_status)
StatusAllowed(item_status) == item_status \in AllowedStatuses

\* req.body.item_status: any string the client sends
StatusInputs == AllowedStatuses \cup {"banana"}

LongName == [i \in 1..(MaxNameLen + 1) |-> "x"]
\* req.body.item_name
ItemNames == {<<>>, <<" ">>, <<" ", "k", "e", "y", " ">>, LongName}

\* const CATEGORIES
Keys  == <<"K", "e", "y", "s">>
Other == <<"O", "t", "h", "e", "r">>
CATEGORIES ==
  { <<"E", "l", "e", "c", "t", "r", "o", "n", "i", "c", "s">>,
    <<"I", "D", " ", "/", " ", "C", "a", "r", "d", "s">>,
    <<"C", "l", "o", "t", "h", "i", "n", "g">>,
    <<"B", "a", "g", "s">>,
    <<"B", "o", "t", "t", "l", "e", "s">>,
    <<"B", "o", "o", "k", "s">>,
    <<"A", "c", "c", "e", "s", "s", "o", "r", "i", "e", "s">>,
    Keys,
    Other }

\* req.body.category || "Other", then CATEGORIES.includes(category) ? category : "Other"
CategoryOf(category) ==
  LET c == IF category = <<>> THEN Other ELSE category
  IN  IF c \in CATEGORIES THEN c ELSE Other

\* String.prototype.toLowerCase over the letters the inputs use
LowerCase ==
  [c \in {"B", "E", "K", "O", "Y"} |->
     CASE c = "B" -> "b" [] c = "E" -> "e" [] c = "K" -> "k" [] c = "O" -> "o" [] c = "Y" -> "y"]
toLowerCase(str) ==
  [k \in 1..Len(str) |-> IF str[k] \in DOMAIN LowerCase THEN LowerCase[str[k]] ELSE str[k]]

\* String.prototype.includes
includes(str, s) ==
  \E k \in 0..(Len(str) - Len(s)) : SubSeq(str, k + 1, k + Len(s)) = s

\* req.query of GET /lost
BoardQuery(search, category) == [search |-> search, category |-> category]
NoQuery == BoardQuery(<<>>, <<>>)
Searches == {<<>>, <<" ">>, <<" ", "K", "E", "Y">>, <<"r", "e", "d">>, <<"z">>}
FilterCategories == {<<>>, Keys, Other}

\* req.body of the registration form
RegisterBody(n, d, c) == [item_name |-> n, item_description |-> d, category |-> c]
NoBody == RegisterBody(<<>>, <<>>, <<>>)
\* the form with a name alone, as the dashboard sends it when nothing else is filled
NameOnly(n) == RegisterBody(n, <<>>, <<>>)
RegisterBodies ==
  { NameOnly(n) : n \in ItemNames } \cup
  { RegisterBody(<<"k", "e", "y">>, <<" ", "r", "e", "d">>, Keys),
    RegisterBody(<<"k", "e", "y">>, <<>>, <<"J", "u", "n", "k">>) }

\* req.file and what uploadImage does with it: no file sent; compressed and
\* stored; compressed but refused by the storage; sharp rejects the buffer
NoFile == "none"
Files  == {NoFile, "stored", "upload_error", "sharp_error"}

\* let image_url = null; if (req.file) image_url = await uploadImage(...):
\* uploadImage returns null on a storage error, the public URL otherwise
ImageUrl(file) == IF file = "stored" THEN "publicUrl" ELSE "null"

\* req.body of the finder-report and sighting forms
FinderForm(n, e, m) == [finder_name |-> n, finder_email |-> e, message |-> m]
GoodName  == <<"B", "o">>
GoodEmail == <<"b", "@", "x", ".", "c">>
GoodMsg   == <<"s", "a", "w">>
FinderForms ==
  { FinderForm(GoodName, GoodEmail, GoodMsg),
    FinderForm(<<" ", "B", "o", " ">>, <<" ", "b", "@", "x", ".", "c">>, <<"s", "a", "w", " ">>),
    FinderForm(<<"B", " ">>, GoodEmail, GoodMsg),
    FinderForm(GoodName, <<"b", "x", ".", "c">>, GoodMsg),
    FinderForm(GoodName, <<"b", "@", "x">>, GoodMsg),
    FinderForm(GoodName, GoodEmail, <<" ", "o", "k", " ">>) }

\* the form of a step that read none
NoForm == FinderForm(<<>>, <<>>, <<>>)

FormErrorNoEmail(form) ==
  IF Len(sanitize(form.finder_name)) < MinPersonNameLen THEN "Name is too short."
  ELSE IF Len(sanitize(form.message)) < MinMessageLen THEN "Message is too short."
  ELSE ""
\* the three inline checks of POST /found/:token and POST /lost/:id/sighting;
\* "" when the form passes
FormError(form) ==
  IF Len(sanitize(form.finder_name)) < MinPersonNameLen THEN "Name is too short."
  ELSE IF ~isValidEmail(sanitize(form.finder_email)) THEN "Invalid email."
  ELSE IF Len(sanitize(form.message)) < MinMessageLen THEN "Message is too short."
  ELSE ""

MinPasswordLen == 8
\* bcrypt.hash(password, 10): a digest that is not the password
hash(password) == <<"$2b$10$">> \o password
\* bcrypt.compare(password, password_hash)
compare(password, password_hash) == password_hash = hash(password)

OldPassword == <<"o", "l", "d", "-", "p", "a", "s", "s">>
NewPassword == <<"n", "e", "w", "-", "p", "a", "s", "s">>
\* req.body.current_password
CurrentPasswords == {OldPassword, <<>>}
\* req.body.new_password
NewPasswords == {NewPassword, <<"s", "h", "o", "r", "t">>}
\* req.body.full_name of POST /account
FullNames == {<<" ", "A", " ">>, <<"A", "l", " ">>}

\* ------------------------------------------------------------------- state
VARIABLES
  users,         \* public.users:          id -> [full_name, password_hash]
  items,         \* public.items:          id -> [user_id, item_name, item_description,
                 \*                               category, item_status, image_url, token]
  reports,       \* public.finder_reports: id -> [item_id, status]
  posts,         \* public.found_posts:    id -> [status]
  nextItemId,    \* number of items rows ever inserted
  nextReportId,  \* last value of the finder_reports id sequence
  nextPostId,    \* last value of the found_posts id sequence
  inflight,      \* bag of requests suspended at an await
  numReq,        \* number of requests received
  ev             \* what the last step did: the handler step and its response

vars == <<users, items, reports, posts, nextItemId, nextReportId, nextPostId, inflight, numReq, ev>>
store == <<items, reports, posts, nextItemId, nextReportId, nextPostId>>

\* a suspended request: the handler, the await it is suspended at, and the
\* values its closure holds (req.session.userId, req.params.token,
\* req.body.item_status, the row it read and, for a report, its item_id)
Req(op, pc, userId, row, item_id, item_status, token) ==
  [op |-> op, pc |-> pc, userId |-> userId, row |-> row, item_id |-> item_id,
   item_status |-> item_status, token |-> token, shown |-> {}, removed |-> {},
   new_password |-> <<>>]

\* a handler step: the request's inputs and, for the step that answers, the
\* response ("pending" for a step after which the handler is suspended again)
Ev(op, step, userId, id, token, item_status, outcome) ==
  [op |-> op, step |-> step, userId |-> userId, id |-> id, token |-> token,
   item_status |-> item_status, outcome |-> outcome, form |-> NoForm,
   body |-> NoBody, file |-> NoFile, query |-> NoQuery, shown |-> {},
   writeError |-> FALSE, removed |-> {}]

NoEv == Ev("", "", NoSession, NoRow, <<>>, "", "")

Init ==
  /\ users = [u \in Users |-> [full_name |-> <<"B", "o">>, password_hash |-> hash(OldPassword)]]
  /\ items = [i \in {} |-> NoRow]
  /\ reports = [r \in {} |-> NoRow]
  /\ posts = [p \in {} |-> NoRow]
  /\ nextItemId = 0
  /\ nextReportId = 0
  /\ nextPostId = 0
  /\ inflight = EmptyBag
  /\ numReq = 0
  /\ ev = NoEv

\* ------------------------------------------------------- store operations
\* .maybeSingle() / .single(): the row when exactly one row matches, else null
MaybeSingle(rows) == IF Cardinality(rows) = 1 THEN CHOOSE x \in rows : TRUE ELSE NoRow

\* from("items").select(...).eq("id", id)
ItemById(id) == MaybeSingle({i \in DOMAIN items : i = id})

IsPrefix(p, t) == Len(p) <= Len(t) /\ SubSeq(t, 1, Len(p)) = p
ItemByTokenPrefix(token) == MaybeSingle({i \in DOMAIN items : IsPrefix(token, items[i].token)})
ItemByTokenAny(token) == MaybeSingle(DOMAIN items)
\* from("items").select(...).eq("token", token): text equality over the whole token
ItemByToken(token) == MaybeSingle({i \in DOMAIN items : items[i].token = token})

\* from("items").select(...).eq("id", id).eq("item_status", "lost")
LostItemById(id) ==
  MaybeSingle({i \in DOMAIN items : i = id /\ items[i].item_status = "lost"})

BoardRowsAnyStatus(filterCategory) ==
  {i \in DOMAIN items : filterCategory # <<>> => items[i].category = filterCategory}
\* from("items").select(...).eq("item_status", "lost"), and
\* `if (filterCategory) query = query.eq("category", filterCategory)`
BoardRows(filterCategory) ==
  {i \in DOMAIN items :
     /\ items[i].item_status = "lost"
     /\ filterCategory # <<>> => items[i].category = filterCategory}

\* filteredItems of GET /lost: the rows of the query, narrowed by the search
\* text when there is one
FilteredItems(rows, search) ==
  IF search = <<>> THEN rows
  ELSE LET s == toLowerCase(search)
       IN  {i \in rows :
              \/ includes(toLowerCase(items[i].item_name), s)
              \/ includes(toLowerCase(items[i].item_description), s)
              \/ includes(toLowerCase(items[i].category), s)}

\* from("users").select("password_hash").eq("id", req.session.userId).single()
\* has a row to return
HasUserRow(id) == id \in DOMAIN users

\* from("users").update({ full_name }).eq("id", req.session.userId)
UpdateFullName(id, full_name) ==
  [u \in DOMAIN users |-> IF u = id THEN [users[u] EXCEPT !.full_name = full_name] ELSE users[u]]

\* from("users").update({ password_hash: hash }).eq("id", req.session.userId)
UpdatePasswordHash(id, password_hash) ==
  [u \in DOMAIN users |->
     IF u = id THEN [users[u] EXCEPT !.password_hash = password_hash] ELSE users[u]]

\* from("finder_reports").select("id, item_id").eq("id", id)
ReportById(id) == MaybeSingle({r \in DOMAIN reports : r = id})

AnyPostById(id) == MaybeSingle({p \in DOMAIN posts : p = id})
\* from("found_posts").select("*").eq("id", id).eq("status", "unclaimed")
UnclaimedPostById(id) ==
  MaybeSingle({p \in DOMAIN posts : p = id /\ posts[p].status = "unclaimed"})

OwnsItemUnchecked(item, userId) == item # NoRow
\* `!item || item.user_id !== req.session.userId`, negated
OwnsItem(item, userId) == item # NoRow /\ items[item].user_id = userId

\* the row POST /dashboard inserts
NewItemRow(userId, body, file, token) ==
  [user_id |-> userId,
   item_name |-> sanitize(body.item_name),
   item_description |-> sanitize(body.item_description),
   category |-> CategoryOf(body.category),
   item_status |-> "active",
   image_url |-> ImageUrl(file),
   token |-> token]

TokenFreeAlways(token) == TRUE
\* items.token is `not null unique`: the insert is refused when the token is taken
TokenFree(token) == \A i \in DOMAIN items : items[i].token # token

NewReportRowResolved(item_id) == [item_id |-> item_id, status |-> "resolved"]
\* the row POST /found/:token and POST /lost/:id/sighting insert
NewReportRow(item_id) == [item_id |-> item_id, status |-> "open"]

\* finder_reports.item_id `references public.items(id)`: the insert is refused
\* when the item is gone
ItemFkHolds(item_id) == item_id \in DOMAIN items

\* the row POST /found-items inserts
NewPostRow == [status |-> "unclaimed"]

UpdateItemStatusGuarded(id, item_status) ==
  [i \in DOMAIN items |->
     IF i = id /\ items[i].item_status # "recovered"
       THEN [items[i] EXCEPT !.item_status = item_status]
       ELSE items[i]]
\* from("items").update({ item_status }).eq("id", id)
UpdateItemStatus(id, item_status) ==
  [i \in DOMAIN items |-> IF i = id THEN [items[i] EXCEPT !.item_status = item_status]
                                    ELSE items[i]]

UpdateReportToggled(id) ==
  [r \in DOMAIN reports |->
     IF r = id THEN [reports[r] EXCEPT !.status = IF @ = "resolved" THEN "open" ELSE "resolved"]
               ELSE reports[r]]
\* from("finder_reports").update({ status: "resolved" }).eq("id", id)
UpdateReportResolved(id) ==
  [r \in DOMAIN reports |-> IF r = id THEN [reports[r] EXCEPT !.status = "resolved"]
                                      ELSE reports[r]]

\* from("found_posts").update({ status: "claimed" }).eq("id", id)
UpdatePostClaimed(id) ==
  [p \in DOMAIN posts |-> IF p = id THEN [posts[p] EXCEPT !.status = "claimed"]
                                    ELSE posts[p]]

\* from("finder_reports").delete().eq("item_id", item_id)
DeleteReportsOf(item_id) ==
  [r \in {x \in DOMAIN reports : reports[x].item_id # item_id} |-> reports[r]]

\* from("items").delete().eq("id", id)
DeleteItemRow(id) == [i \in DOMAIN items \ {id} |-> items[i]]

ReportsNotCascaded(id) == reports
\* finder_reports.item_id `on delete cascade`: the reports a delete of item id
\* leaves in the table
ReportsAfterItemDelete(id) == DeleteReportsOf(id)

\* ---------------------------------------------------------------- requests
CanReceive == numReq < MaxRequests
CanSuspend == BagCardinality(inflight) < MaxInFlight

Suspended == BagToSet(inflight)
Suspend(q)    == inflight' = inflight (+) SetToBag({q})
Resume(q, q2) == inflight' = (inflight (-) SetToBag({q})) (+) SetToBag({q2})
Finish(q)     == inflight' = inflight (-) SetToBag({q})

LoggedInAlways(userId) == TRUE
\* requireAuth: `if (!req.session.userId)`
LoggedIn(userId) == userId # NoSession

\* inserts the suspended requests still have to make
PendingInserts == BagCardinality([q \in {x \in Suspended : x.pc = "insert"} |-> inflight[q]])

\* ------------------------------------------- POST /dashboard (register item)
RegisterItem(userId, body, file) ==
  /\ CanReceive
  /\ numReq' = numReq + 1
  /\ UNCHANGED <<reports, posts, nextReportId, nextPostId, inflight>>
  /\ IF ~LoggedIn(userId)
       THEN /\ ev' = Ev("registerItem", "requireAuth", userId, NoRow, <<>>, "", "Please login first.")
            /\ UNCHANGED <<items, nextItemId>>
     ELSE IF sanitize(body.item_name) = <<>> \/ Len(sanitize(body.item_name)) > MaxNameLen
       THEN /\ ev' = [Ev("registerItem", "validate", userId, NoRow, <<>>, "",
                         "Item name is required (max 150 characters).")
                        EXCEPT !.body = body, !.file = file]
            /\ UNCHANGED <<items, nextItemId>>
     ELSE IF file = "sharp_error"
       THEN /\ ev' = [Ev("registerItem", "uploadImage", userId, NoRow, <<>>, "",
                         "Something went wrong.")
                        EXCEPT !.body = body, !.file = file]
            /\ UNCHANGED <<items, nextItemId>>
     ELSE \E token \in GenTokens :
            IF TokenFree(token)
              THEN /\ nextItemId < MaxItems
                   /\ nextItemId' = nextItemId + 1
                   /\ items' = [i \in DOMAIN items \cup {nextItemId + 1} |->
                                  IF i \in DOMAIN items THEN items[i]
                                  ELSE NewItemRow(userId, body, file, token)]
                   /\ ev' = [Ev("registerItem", "insert", userId, nextItemId + 1, token, "",
                                "Item registered and QR generated.")
                               EXCEPT !.body = body, !.file = file]
              ELSE /\ ev' = [Ev("registerItem", "insert", userId, NoRow, token, "",
                                "Failed to register item.")
                               EXCEPT !.body = body, !.file = file]
                   /\ UNCHANGED <<items, nextItemId>>

\* ------------------------------------------------------------- GET /lost
LostBoardQuery(search, filterCategory) ==
  /\ CanReceive /\ CanSuspend
  /\ numReq' = numReq + 1
  /\ UNCHANGED store
  /\ LET filteredItems == FilteredItems(BoardRows(filterCategory), sanitize(search))
     IN  IF filteredItems = {}
           THEN /\ ev' = [Ev("lostBoard", "query", NoSession, NoRow, <<>>, "", "lost")
                            EXCEPT !.query = BoardQuery(search, filterCategory)]
                /\ UNCHANGED inflight
           ELSE /\ ev' = [Ev("lostBoard", "query", NoSession, NoRow, <<>>, "", "pending")
                            EXCEPT !.query = BoardQuery(search, filterCategory),
                                   !.shown = filteredItems]
                /\ Suspend([Req("lostBoard", "users", NoSession, NoRow, NoRow, "", <<>>)
                              EXCEPT !.shown = filteredItems])

\* the owners' names have been read: res.render("lost", { items: filteredItems ... })
LostBoardRender(q) ==
  /\ q.op = "lostBoard" /\ q.pc = "users"
  /\ Finish(q)
  /\ UNCHANGED <<store, numReq>>
  /\ ev' = [Ev("lostBoard", "render", NoSession, NoRow, <<>>, "", "lost")
              EXCEPT !.shown = q.shown]

\* --------------------------------------------------- POST /item/:id/status
SetStatusRead(userId, id, item_status) ==
  /\ CanReceive /\ CanSuspend
  /\ numReq' = numReq + 1
  /\ UNCHANGED store
  /\ IF ~LoggedIn(userId)
       THEN /\ ev' = Ev("setStatus", "requireAuth", userId, NoRow, <<>>, "", "Please login first.")
            /\ UNCHANGED inflight
     ELSE IF ~OwnsItem(ItemById(id), userId)
       THEN /\ ev' = Ev("setStatus", "read", userId, id, <<>>, item_status, "Item not found.")
            /\ UNCHANGED inflight
     ELSE IF ~StatusAllowed(item_status)
       THEN /\ ev' = Ev("setStatus", "read", userId, id, <<>>, item_status, "Invalid status.")
            /\ UNCHANGED inflight
     ELSE /\ ev' = Ev("setStatus", "read", userId, id, <<>>, item_status, "pending")
          /\ Suspend(Req("setStatus", "update", userId, ItemById(id), NoRow, item_status, <<>>))

SetStatusUpdate(q) ==
  /\ q.op = "setStatus" /\ q.pc = "update"
  /\ items' = UpdateItemStatus(q.row, q.item_status)
  /\ Finish(q)
  /\ ev' = Ev("setStatus", "update", q.userId, q.row, <<>>, q.item_status, "success")
  /\ UNCHANGED <<reports, posts, nextItemId, nextReportId, nextPostId, numReq>>

\* --------------------------------------------------- POST /item/:id/delete
DeleteItemRead(userId, id) ==
  /\ CanReceive /\ CanSuspend
  /\ numReq' = numReq + 1
  /\ UNCHANGED store
  /\ IF ~LoggedIn(userId)
       THEN /\ ev' = Ev("deleteItem", "requireAuth", userId, NoRow, <<>>, "", "Please login first.")
            /\ UNCHANGED inflight
     ELSE IF ~OwnsItem(ItemById(id), userId)
       THEN /\ ev' = Ev("deleteItem", "read", userId, id, <<>>, "", "Item not found.")
            /\ UNCHANGED inflight
     ELSE /\ ev' = Ev("deleteItem", "read", userId, id, <<>>, "", "pending")
          /\ Suspend(Req("deleteItem", "deleteReports", userId, ItemById(id), NoRow, "", <<>>))

DeleteItemReports(q) ==
  /\ q.op = "deleteItem" /\ q.pc = "deleteReports"
  /\ reports' = DeleteReportsOf(q.row)
  /\ Resume(q, [q EXCEPT !.pc = "deleteItem", !.removed = DOMAIN reports \ DOMAIN reports'])
  /\ ev' = [Ev("deleteItem", "deleteReports", q.userId, q.row, <<>>, "", "pending")
              EXCEPT !.removed = DOMAIN reports \ DOMAIN reports']
  /\ UNCHANGED <<items, posts, nextItemId, nextReportId, nextPostId, numReq>>

DeleteItemItem(q) ==
  /\ q.op = "deleteItem" /\ q.pc = "deleteItem"
  /\ reports' = IF q.row \in DOMAIN items THEN ReportsAfterItemDelete(q.row) ELSE reports
  /\ items' = DeleteItemRow(q.row)
  /\ Finish(q)
  /\ ev' = [Ev("deleteItem", "deleteItem", q.userId, q.row, <<>>, "", "success")
              EXCEPT !.removed = q.removed]
  /\ UNCHANGED <<posts, nextItemId, nextReportId, nextPostId, numReq>>

\* ------------------------------------------------------- GET /found/:token
FoundPage(token) ==
  /\ CanReceive
  /\ numReq' = numReq + 1
  /\ UNCHANGED <<store, inflight>>
  /\ ev' = Ev("foundPage", "read", NoSession, ItemByToken(token), token, "",
              IF ItemByToken(token) = NoRow THEN "404" ELSE "found_qr")

\* ------------------------------------------------------ POST /found/:token
SubmitFinderReportRead(token, form) ==
  /\ CanReceive /\ CanSuspend
  /\ numReq' = numReq + 1
  /\ UNCHANGED store
  /\ IF ItemByToken(token) = NoRow
       THEN /\ ev' = Ev("submitFinderReport", "read", NoSession, NoRow, token, "", "404")
            /\ UNCHANGED inflight
     ELSE IF FormError(form) # ""
       THEN /\ ev' = [Ev("submitFinderReport", "read", NoSession, ItemByToken(token), token, "",
                         FormError(form)) EXCEPT !.form = form]
            /\ UNCHANGED inflight
     ELSE /\ nextReportId + PendingInserts < MaxReports
          /\ ev' = [Ev("submitFinderReport", "read", NoSession, ItemByToken(token), token, "",
                       "pending") EXCEPT !.form = form]
          /\ Suspend(Req("submitFinderReport", "insert", NoSession, ItemByToken(token), NoRow,
                         "", token))

SubmitFinderReportInsert(q) ==
  /\ q.op = "submitFinderReport" /\ q.pc = "insert"
  /\ Finish(q)
  /\ UNCHANGED <<items, posts, nextItemId, nextPostId, numReq>>
  /\ IF ItemFkHolds(q.row)
       THEN /\ nextReportId' = nextReportId + 1
            /\ reports' = [r \in DOMAIN reports \cup {nextReportId + 1} |->
                             IF r \in DOMAIN reports THEN reports[r] ELSE NewReportRow(q.row)]
            /\ ev' = Ev("submitFinderReport", "insert", NoSession, q.row, q.token, "",
                        "Report submitted to owner!")
       ELSE /\ UNCHANGED <<reports, nextReportId>>
            /\ ev' = Ev("submitFinderReport", "insert", NoSession, q.row, q.token, "",
                        "Failed to submit report.")

\* --------------------------------------------------- POST /lost/:id/sighting
SubmitSightingRead(id, form) ==
  /\ CanReceive /\ CanSuspend
  /\ numReq' = numReq + 1
  /\ UNCHANGED store
  /\ IF LostItemById(id) = NoRow
       THEN /\ ev' = Ev("submitSighting", "read", NoSession, id, <<>>, "", "Item not found.")
            /\ UNCHANGED inflight
     ELSE IF FormError(form) # ""
       THEN /\ ev' = Ev("submitSighting", "read", NoSession, id, <<>>, "", FormError(form))
            /\ UNCHANGED inflight
     ELSE /\ nextReportId + PendingInserts < MaxReports
          /\ ev' = Ev("submitSighting", "read", NoSession, id, <<>>, "", "pending")
          /\ Suspend(Req("submitSighting", "insert", NoSession, LostItemById(id), NoRow, "", <<>>))

SubmitSightingInsert(q) ==
  /\ q.op = "submitSighting" /\ q.pc = "insert"
  /\ Finish(q)
  /\ UNCHANGED <<items, posts, nextItemId, nextPostId, numReq>>
  /\ IF ItemFkHolds(q.row)
       THEN /\ nextReportId' = nextReportId + 1
            /\ reports' = [r \in DOMAIN reports \cup {nextReportId + 1} |->
                             IF r \in DOMAIN reports THEN reports[r] ELSE NewReportRow(q.row)]
            /\ ev' = Ev("submitSighting", "insert", NoSession, q.row, <<>>, "",
                        "Sighting reported.")
       ELSE /\ UNCHANGED <<reports, nextReportId>>
            /\ ev' = Ev("submitSighting", "insert", NoSession, q.row, <<>>, "",
                        "Failed to submit sighting.")

\* ------------------------------------------------------- POST /found-items
PostFoundItem(form, item_name) ==
  /\ CanReceive
  /\ numReq' = numReq + 1
  /\ UNCHANGED <<items, reports, nextItemId, nextReportId, inflight>>
  /\ IF Len(sanitize(form.finder_name)) < MinPersonNameLen
       THEN /\ ev' = Ev("postFoundItem", "validate", NoSession, NoRow, <<>>, "", "Name is too short.")
            /\ UNCHANGED <<posts, nextPostId>>
     ELSE IF ~isValidEmail(sanitize(form.finder_email))
       THEN /\ ev' = Ev("postFoundItem", "validate", NoSession, NoRow, <<>>, "", "Invalid email.")
            /\ UNCHANGED <<posts, nextPostId>>
     ELSE IF sanitize(item_name) = <<>> \/ Len(sanitize(item_name)) > MaxNameLen
       THEN /\ ev' = Ev("postFoundItem", "validate", NoSession, NoRow, <<>>, "",
                        "Item name is required (max 150 chars).")
            /\ UNCHANGED <<posts, nextPostId>>
     ELSE /\ nextPostId < MaxPosts
          /\ nextPostId' = nextPostId + 1
          /\ posts' = [p \in DOMAIN posts \cup {nextPostId + 1} |->
                         IF p \in DOMAIN posts THEN posts[p] ELSE NewPostRow]
          /\ ev' = Ev("postFoundItem", "insert", NoSession, nextPostId + 1, <<>>, "",
                      "Found item posted!")

\* --------------------------------------------- POST /found-items/:id/claim
ClaimFoundPostRead(userId, id) ==
  /\ CanReceive /\ CanSuspend
  /\ numReq' = numReq + 1
  /\ UNCHANGED store
  /\ IF ~LoggedIn(userId)
       THEN /\ ev' = Ev("claimFoundPost", "requireAuth", userId, NoRow, <<>>, "", "Please login first.")
            /\ UNCHANGED inflight
     ELSE IF UnclaimedPostById(id) = NoRow
       THEN /\ ev' = Ev("claimFoundPost", "read", userId, id, <<>>, "",
                        "Post not found or already claimed.")
            /\ UNCHANGED inflight
     ELSE /\ ev' = Ev("claimFoundPost", "read", userId, id, <<>>, "", "pending")
          /\ Suspend(Req("claimFoundPost", "update", userId, UnclaimedPostById(id), NoRow, "", <<>>))

ClaimFoundPostUpdate(q) ==
  /\ q.op = "claimFoundPost" /\ q.pc = "update"
  /\ posts' = UpdatePostClaimed(q.row)
  /\ Finish(q)
  /\ ev' = Ev("claimFoundPost", "update", q.userId, q.row, <<>>, "", "success")
  /\ UNCHANGED <<items, reports, nextItemId, nextReportId, nextPostId, numReq>>

\* ------------------------------------------------ POST /report/:id/resolve
ResolveReportRead(userId, id) ==
  /\ CanReceive /\ CanSuspend
  /\ numReq' = numReq + 1
  /\ UNCHANGED store
  /\ IF ~LoggedIn(userId)
       THEN /\ ev' = Ev("resolveReport", "requireAuth", userId, NoRow, <<>>, "", "Please login first.")
            /\ UNCHANGED inflight
     ELSE IF ReportById(id) = NoRow
       THEN /\ ev' = Ev("resolveReport", "read", userId, id, <<>>, "", "404")
            /\ UNCHANGED inflight
     ELSE /\ ev' = Ev("resolveReport", "read", userId, id, <<>>, "", "pending")
          /\ Suspend(Req("resolveReport", "readItem", userId, ReportById(id),
                         reports[ReportById(id)].item_id, "", <<>>))

ResolveReportReadItem(q) ==
  /\ q.op = "resolveReport" /\ q.pc = "readItem"
  /\ UNCHANGED <<store, numReq>>
  /\ IF ~OwnsItem(ItemById(q.item_id), q.userId)
       THEN /\ ev' = Ev("resolveReport", "readItem", q.userId, q.row, <<>>, "", "403")
            /\ Finish(q)
       ELSE /\ ev' = Ev("resolveReport", "readItem", q.userId, q.row, <<>>, "", "pending")
            /\ Resume(q, [q EXCEPT !.pc = "update"])

ResolveReportUpdate(q) ==
  /\ q.op = "resolveReport" /\ q.pc = "update"
  /\ reports' = UpdateReportResolved(q.row)
  /\ Finish(q)
  /\ ev' = Ev("resolveReport", "update", q.userId, q.row, <<>>, "", "success")
  /\ UNCHANGED <<items, posts, nextItemId, nextReportId, nextPostId, numReq>>

\* ----------------------------------------------------------- POST /account
UpdateAccount(userId, full_name) ==
  /\ CanReceive
  /\ numReq' = numReq + 1
  /\ UNCHANGED <<store, inflight>>
  /\ IF ~LoggedIn(userId)
       THEN /\ ev' = Ev("updateAccount", "requireAuth", userId, NoRow, <<>>, "", "Please login first.")
            /\ UNCHANGED users
     ELSE IF Len(sanitize(full_name)) < MinPersonNameLen
       THEN /\ ev' = Ev("updateAccount", "validate", userId, NoRow, <<>>, "", "Name is too short.")
            /\ UNCHANGED users
     ELSE /\ users' = UpdateFullName(userId, sanitize(full_name))
          /\ ev' = Ev("updateAccount", "update", userId, NoRow, <<>>, "", "Profile updated.")

\* -------------------------------------------------- POST /account/password
ChangePasswordRead(userId, current_password, new_password) ==
  /\ CanReceive /\ CanSuspend
  /\ numReq' = numReq + 1
  /\ UNCHANGED <<store, users>>
  /\ IF ~LoggedIn(userId)
       THEN /\ ev' = Ev("changePassword", "requireAuth", userId, NoRow, <<>>, "", "Please login first.")
            /\ UNCHANGED inflight
     ELSE IF new_password = <<>> \/ Len(new_password) < MinPasswordLen
       THEN /\ ev' = Ev("changePassword", "validate", userId, NoRow, <<>>, "",
                        "New password must be at least 8 characters.")
            /\ UNCHANGED inflight
     ELSE IF ~HasUserRow(userId)
       THEN /\ ev' = Ev("changePassword", "read", userId, NoRow, <<>>, "", "Something went wrong.")
            /\ UNCHANGED inflight
     ELSE IF ~compare(current_password, users[userId].password_hash)
       THEN /\ ev' = Ev("changePassword", "read", userId, NoRow, <<>>, "",
                        "Current password is incorrect.")
            /\ UNCHANGED inflight
     ELSE /\ ev' = Ev("changePassword", "read", userId, NoRow, <<>>, "", "pending")
          /\ Suspend([Req("changePassword", "update", userId, NoRow, NoRow, "", <<>>)
                        EXCEPT !.new_password = new_password])

ChangePasswordUpdate(q) ==
  /\ q.op = "changePassword" /\ q.pc = "update"
  /\ users' = UpdatePasswordHash(q.userId, hash(q.new_password))
  /\ Finish(q)
  /\ ev' = Ev("changePassword", "update", q.userId, NoRow, <<>>, "", "Password updated.")
  /\ UNCHANGED <<store, numReq>>

\* ------------------------------------------------- store writes that fail
\* supabase-js resolves a failed write to `{ error }` and does not throw; these
\* four handlers await the write without reading the result, so each goes on
\* as after a write that succeeded, with the table as it was
SetStatusUpdateError(q) ==
  /\ q.op = "setStatus" /\ q.pc = "update"
  /\ Finish(q)
  /\ ev' = [Ev("setStatus", "update", q.userId, q.row, <<>>, q.item_status, "success")
              EXCEPT !.writeError = TRUE]
  /\ UNCHANGED <<store, numReq>>

DeleteItemReportsError(q) ==
  /\ q.op = "deleteItem" /\ q.pc = "deleteReports"
  /\ Resume(q, [q EXCEPT !.pc = "deleteItem"])
  /\ ev' = [Ev("deleteItem", "deleteReports", q.userId, q.row, <<>>, "", "pending")
              EXCEPT !.writeError = TRUE]
  /\ UNCHANGED <<store, numReq>>

DeleteItemItemError(q) ==
  /\ q.op = "deleteItem" /\ q.pc = "deleteItem"
  /\ Finish(q)
  /\ ev' = [Ev("deleteItem", "deleteItem", q.userId, q.row, <<>>, "", "success")
              EXCEPT !.writeError = TRUE, !.removed = q.removed]
  /\ UNCHANGED <<store, numReq>>

ClaimFoundPostUpdateError(q) ==
  /\ q.op = "claimFoundPost" /\ q.pc = "update"
  /\ Finish(q)
  /\ ev' = [Ev("claimFoundPost", "update", q.userId, q.row, <<>>, "", "success")
              EXCEPT !.writeError = TRUE]
  /\ UNCHANGED <<store, numReq>>

ResolveReportUpdateError(q) ==
  /\ q.op = "resolveReport" /\ q.pc = "update"
  /\ Finish(q)
  /\ ev' = [Ev("resolveReport", "update", q.userId, q.row, <<>>, "", "success")
              EXCEPT !.writeError = TRUE]
  /\ UNCHANGED <<store, numReq>>

\* --------------------------------------------------------- specification
ReceiveRegisterItem == \E u \in Actors : \E n \in ItemNames : RegisterItem(u, NameOnly(n), NoFile) /\ UNCHANGED users
ReceiveSetStatus == \E u \in Actors : \E i \in ItemIds : \E st \in StatusInputs : SetStatusRead(u, i, st) /\ UNCHANGED users
StepSetStatus == \E q \in Suspended : SetStatusUpdate(q) /\ UNCHANGED users
ReceiveDeleteItem == \E u \in Actors : \E i \in ItemIds : DeleteItemRead(u, i) /\ UNCHANGED users
StepDeleteReports == \E q \in Suspended : DeleteItemReports(q) /\ UNCHANGED users
StepDeleteItem == \E q \in Suspended : DeleteItemItem(q) /\ UNCHANGED users
ReceiveFoundPage == \E t \in ReqTokens : FoundPage(t) /\ UNCHANGED users
ReceiveSubmitFinderReport == \E t \in ReqTokens : \E f \in FinderForms : SubmitFinderReportRead(t, f) /\ UNCHANGED users
StepSubmitFinderReport == \E q \in Suspended : SubmitFinderReportInsert(q) /\ UNCHANGED users
ReceiveSubmitSighting == \E i \in ItemIds : \E f \in FinderForms : SubmitSightingRead(i, f) /\ UNCHANGED users
StepSubmitSighting == \E q \in Suspended : SubmitSightingInsert(q) /\ UNCHANGED users
ReceivePostFoundItem == \E f \in FinderForms : \E n \in ItemNames : PostFoundItem(f, n) /\ UNCHANGED users
ReceiveClaimFoundPost == \E u \in Actors : \E p \in PostIds : ClaimFoundPostRead(u, p) /\ UNCHANGED users
StepClaimFoundPost == \E q \in Suspended : ClaimFoundPostUpdate(q) /\ UNCHANGED users
ReceiveResolveReport == \E u \in Actors : \E r \in ReportIds : ResolveReportRead(u, r) /\ UNCHANGED users
StepResolveReadItem == \E q \in Suspended : ResolveReportReadItem(q) /\ UNCHANGED users
StepResolveUpdate == \E q \in Suspended : ResolveReportUpdate(q) /\ UNCHANGED users

Next ==
  \/ ReceiveRegisterItem
  \/ ReceiveSetStatus
  \/ StepSetStatus
  \/ ReceiveDeleteItem
  \/ StepDeleteReports
  \/ StepDeleteItem
  \/ ReceiveFoundPage
  \/ ReceiveSubmitFinderReport
  \/ StepSubmitFinderReport
  \/ ReceiveSubmitSighting
  \/ StepSubmitSighting
  \/ ReceivePostFoundItem
  \/ ReceiveClaimFoundPost
  \/ StepClaimFoundPost
  \/ ReceiveResolveReport
  \/ StepResolveReadItem
  \/ StepResolveUpdate

Spec == Init /\ [][Next]_vars

\* the Item Registry with the whole registration form and the Lost Board
ReceiveRegisterForm == \E u \in Users : \E b \in RegisterBodies : RegisterItem(u, b, NoFile) /\ UNCHANGED users
ReceiveLostBoard == \E s \in Searches : \E c \in FilterCategories : LostBoardQuery(s, c) /\ UNCHANGED users
StepLostBoard == \E q \in Suspended : LostBoardRender(q) /\ UNCHANGED users

NextRegistry ==
  \/ ReceiveRegisterForm
  \/ ReceiveSetStatus
  \/ StepSetStatus
  \/ ReceiveDeleteItem
  \/ StepDeleteReports
  \/ StepDeleteItem
  \/ ReceiveLostBoard
  \/ StepLostBoard

SpecRegistry == Init /\ [][NextRegistry]_vars

\* registration with an image attached, and everything uploadImage can do with it
ReceiveRegisterUpload ==
  \E u \in Actors : \E n \in ItemNames : \E f \in Files :
    RegisterItem(u, NameOnly(n), f) /\ UNCHANGED users

NextUpload ==
  \/ ReceiveRegisterUpload
  \/ ReceiveSetStatus
  \/ StepSetStatus
  \/ ReceiveDeleteItem
  \/ StepDeleteReports
  \/ StepDeleteItem

SpecUpload == Init /\ [][NextUpload]_vars

\* the handlers of Spec over a store whose writes may fail
FailSetStatus == \E q \in Suspended : SetStatusUpdateError(q) /\ UNCHANGED users
FailDeleteReports == \E q \in Suspended : DeleteItemReportsError(q) /\ UNCHANGED users
FailDeleteItem == \E q \in Suspended : DeleteItemItemError(q) /\ UNCHANGED users
FailClaimFoundPost == \E q \in Suspended : ClaimFoundPostUpdateError(q) /\ UNCHANGED users
FailResolveUpdate == \E q \in Suspended : ResolveReportUpdateError(q) /\ UNCHANGED users

NextFail ==
  \/ Next
  \/ FailSetStatus
  \/ FailDeleteReports
  \/ FailDeleteItem
  \/ FailClaimFoundPost
  \/ FailResolveUpdate

SpecFail == Init /\ [][NextFail]_vars

\* the handlers of Spec and the two account endpoints
ReceiveUpdateAccount == \E u \in Actors : \E n \in FullNames : UpdateAccount(u, n)
ReceiveChangePassword ==
  \E u \in Actors : \E c \in CurrentPasswords : \E n \in NewPasswords : ChangePasswordRead(u, c, n)
StepChangePassword == \E q \in Suspended : ChangePasswordUpdate(q)

NextAccount ==
  \/ Next
  \/ ReceiveUpdateAccount
  \/ ReceiveChangePassword
  \/ StepChangePassword

SpecAccount == Init /\ [][NextAccount]_vars

\* ------------------------------------------------------------ properties
\* the rows of finder_reports that belong to item i
ReportsOf(i) == {r \in DOMAIN reports : reports[r].item_id = i}

\* the step answers the request, and the handler suspends no continuation
AnswersAtOnce == ev'.outcome # "pending" /\ inflight' = inflight

\* C1: setStatus, deleteItem and resolveReport take effect only for the Item's
\* owner.  A non-owner's setStatus or deleteItem on an existing Item is answered
\* "Item not found.", a non-owner's resolveReport on a report of the Item is
\* answered 403, and such a step changes no table; and every step that changes
\* or deletes an Item, or changes or deletes one of its FinderReports, is a step
\* of a request whose session user is the Item's owner.
C1_OnlyOwnerMutates ==
  [][ /\ ( /\ ev'.op \in {"setStatus", "deleteItem"}
           /\ ev'.step = "read"
           /\ ev'.id \in DOMAIN items
           /\ items[ev'.id].user_id # ev'.userId )
         => /\ ev'.outcome = "Item not found."
            /\ AnswersAtOnce
            /\ UNCHANGED store
      /\ ( /\ ev'.op = "resolveReport"
           /\ ev'.step = "readItem"
           /\ ev'.id \in DOMAIN reports
           /\ reports[ev'.id].item_id \in DOMAIN items
           /\ items[reports[ev'.id].item_id].user_id # ev'.userId )
         => /\ ev'.outcome = "403"
            /\ BagCardinality(inflight') < BagCardinality(inflight)
            /\ UNCHANGED store
      /\ \A i \in DOMAIN items :
           (i \notin DOMAIN items' \/ items'[i] # items[i])
             => /\ ev'.op \in {"setStatus", "deleteItem"}
                /\ ev'.id = i
                /\ ev'.userId = items[i].user_id
      /\ \A r \in DOMAIN reports :
           (r \notin DOMAIN reports' \/ reports'[r] # reports[r])
             => /\ ev'.op \in {"deleteItem", "resolveReport"}
                /\ reports[r].item_id \in DOMAIN items
                /\ ev'.userId = items[reports[r].item_id].user_id
    ]_vars

\* a logged-in user who does not own the report's Item was answered 403
C1_Witness ==
  /\ ev.op = "resolveReport"
  /\ ev.outcome = "403"
  /\ ev.userId \in Users
  /\ ev.id \in DOMAIN reports
  /\ reports[ev.id].item_id \in DOMAIN items
  /\ items[reports[ev.id].item_id].user_id # ev.userId
  /\ reports[ev.id].status = "open"

\* C2: of the claimFoundPost requests on one FoundPost exactly one reports
\* success: a request never reports success on a post that another request has
\* already turned to claimed (it reports the conflict instead).
C2_ExactlyOneClaimSucceeds ==
  [][ ( /\ ev'.op = "claimFoundPost"
        /\ ev'.outcome = "success" )
      => ~( ev'.id \in DOMAIN posts /\ posts[ev'.id].status = "claimed" )
    ]_vars

\* C3: at most one resolveReport request per FinderReport reports success: a
\* resolve request on a report that is already resolved does not report success.
C3_AtMostOneResolve ==
  [][ ( /\ ev'.op = "resolveReport"
        /\ ev'.outcome = "success" )
      => ~( ev'.id \in DOMAIN reports /\ reports[ev'.id].status = "resolved" )
    ]_vars

\* C4: a claimFoundPost request of a logged-in user that finds the FoundPost
\* missing or already claimed is answered "Post not found or already claimed."
\* at once and writes nothing.
C4_ClaimOfClaimedIsNoOp ==
  [][ ( /\ ev'.op = "claimFoundPost"
        /\ ev'.step = "read"
        /\ ev'.userId \in Users
        /\ (ev'.id \notin DOMAIN posts \/ posts[ev'.id].status = "claimed") )
      => /\ ev'.outcome = "Post not found or already claimed."
         /\ AnswersAtOnce
         /\ UNCHANGED store
    ]_vars

\* a claim of an already claimed post was refused
C4_Witness ==
  /\ ev.op = "claimFoundPost"
  /\ ev.outcome = "Post not found or already claimed."
  /\ ev.id \in DOMAIN posts
  /\ posts[ev.id].status = "claimed"

\* C5: resolved and claimed are terminal: no step takes a resolved FinderReport
\* back to open or a claimed FoundPost back to unclaimed.
C5_TerminalStatuses ==
  [][ /\ \A r \in DOMAIN reports :
           (reports[r].status = "resolved" /\ r \in DOMAIN reports')
             => reports'[r].status = "resolved"
      /\ \A p \in DOMAIN posts :
           posts[p].status = "claimed"
             => (p \in DOMAIN posts' /\ posts'[p].status = "claimed")
    ]_vars

\* a report that was resolved has been the target of a second resolve
C5_Witness ==
  /\ ev.op = "resolveReport"
  /\ ev.step = "update"
  /\ ev.id \in DOMAIN reports
  /\ reports[ev.id].status = "resolved"
  /\ numReq >= 4

\* C6: every FinderReport's item_id is the id of an existing Item, and when a
\* deleteItem request has answered success neither the Item nor any of its
\* FinderReports is left, whatever submit steps ran between its two deletes.
C6_ReportsReferenceItems ==
  /\ \A r \in DOMAIN reports : reports[r].item_id \in DOMAIN items
  /\ (ev.op = "deleteItem" /\ ev.outcome = "success")
       => (ev.id \notin DOMAIN items /\ ReportsOf(ev.id) = {})

\* a delete completed for an Item that had a report, while a submit for the
\* same Item is still waiting to insert
C6_Witness ==
  /\ ev.op = "deleteItem"
  /\ ev.outcome = "success"
  /\ nextReportId >= 1
  /\ \E q \in Suspended :
       q.op \in {"submitFinderReport", "submitSighting"} /\ q.pc = "insert" /\ q.row = ev.id

\* C7: setStatus by the owner with a status outside active, lost, recovered is
\* answered "Invalid status." at once and leaves the Item as it was.
C7_InvalidStatusRejected ==
  [][ ( /\ ev'.op = "setStatus"
        /\ ev'.step = "read"
        /\ ev'.id \in DOMAIN items
        /\ items[ev'.id].user_id = ev'.userId
        /\ ev'.item_status \notin {"active", "lost", "recovered"} )
      => /\ ev'.outcome = "Invalid status."
         /\ AnswersAtOnce
         /\ UNCHANGED store
    ]_vars

\* the owner's setStatus(banana) was rejected, on an Item that is lost
C7_Witness ==
  /\ ev.op = "setStatus"
  /\ ev.outcome = "Invalid status."
  /\ ev.item_status = "banana"
  /\ ev.id \in DOMAIN items
  /\ items[ev.id].user_id = ev.userId
  /\ items[ev.id].item_status = "lost"

\* C8: every status field holds a value of its enum.
C8_StatusEnums ==
  /\ \A i \in DOMAIN items : items[i].item_status \in {"active", "lost", "recovered"}
  /\ \A r \in DOMAIN reports : reports[r].status \in {"open", "resolved"}
  /\ \A p \in DOMAIN posts : posts[p].status \in {"unclaimed", "claimed"}
  /\ \A q \in Suspended : q.op = "setStatus" => q.item_status \in {"active", "lost", "recovered"}

\* an owner's setStatus wrote a status, with a report and a post in the store
C8_Witness ==
  /\ ev.op = "setStatus"
  /\ ev.outcome = "success"
  /\ ev.id \in DOMAIN items
  /\ items[ev.id].item_status = "recovered"
  /\ DOMAIN posts # {}

\* C9: GET and POST /found/:token with a token no Item has are answered 404,
\* and the POST inserts no FinderReport (the handler ends at the lookup).
C9_UnknownTokenNotFound ==
  [][ ( /\ ev'.op \in {"foundPage", "submitFinderReport"}
        /\ ev'.step = "read"
        /\ \A i \in DOMAIN items : items[i].token # ev'.token )
      => /\ ev'.outcome = "404"
         /\ AnswersAtOnce
         /\ UNCHANGED store
    ]_vars

\* the POST was answered 404 for a token that is a proper prefix of an Item's
\* token, after another Item has been deleted
C9_Witness ==
  /\ ev.op = "submitFinderReport"
  /\ ev.outcome = "404"
  /\ \E i \in DOMAIN items : items[i].token # ev.token /\ IsPrefix(ev.token, items[i].token)
  /\ nextItemId > Cardinality(DOMAIN items)

\* C10: the insert of a valid submitFinderReport on token T, made while the Item
\* the lookup found still exists, reports success and adds exactly one
\* FinderReport, open and with the item_id of the one Item whose token is T; it
\* changes no Item, no FoundPost and no other FinderReport.  No other step of
\* the handler reports success, and a lookup that finds the Item of T is never
\* answered 404.
C10_ReportForTokenItem ==
  [][ /\ ( /\ ev'.op = "submitFinderReport"
           /\ ev'.step = "insert"
           /\ ev'.id \in DOMAIN items )
         => /\ ev'.outcome = "Report submitted to owner!"
            /\ \E new \in DOMAIN reports' \ DOMAIN reports :
                 /\ DOMAIN reports' = DOMAIN reports \cup {new}
                 /\ reports'[new].status = "open"
                 /\ reports'[new].item_id \in DOMAIN items
                 /\ items[reports'[new].item_id].token = ev'.token
                 /\ \A i \in DOMAIN items :
                      items[i].token = ev'.token => i = reports'[new].item_id
            /\ \A r \in DOMAIN reports : reports'[r] = reports[r]
            /\ UNCHANGED <<items, posts>>
      /\ ( /\ ev'.op = "submitFinderReport"
           /\ ev'.outcome = "Report submitted to owner!" )
         => (ev'.step = "insert" /\ ev'.id \in DOMAIN items)
      /\ ( /\ ev'.op = "submitFinderReport"
           /\ ev'.step = "read"
           /\ \E i \in DOMAIN items : items[i].token = ev'.token )
         => ev'.outcome \in {"pending", "Name is too short.", "Invalid email.",
                             "Message is too short."}
    ]_vars

\* a report was created for one of two Items whose tokens share their first character
C10_Witness ==
  /\ ev.op = "submitFinderReport"
  /\ ev.outcome = "Report submitted to owner!"
  /\ \E i \in DOMAIN items : \E j \in DOMAIN items :
       /\ i # j
       /\ items[i].token = ev.token
       /\ items[j].token[1] = ev.token[1]
       /\ \E r \in DOMAIN reports : reports[r].item_id = i

\* C11: submitSighting is answered "Item not found." at once for an Item that
\* is missing, active or recovered, and every sighting report is inserted while
\* the target Item's status is lost, whatever the owner's setStatus did between
\* the handler's lookup and its insert.
C11_SightingOnlyWhileLost ==
  [][ /\ ( /\ ev'.op = "submitSighting"
           /\ ev'.step = "read"
           /\ (ev'.id \notin DOMAIN items \/ items[ev'.id].item_status # "lost") )
         => /\ ev'.outcome = "Item not found."
            /\ AnswersAtOnce
            /\ UNCHANGED store
      /\ ( /\ ev'.op = "submitSighting"
           /\ ev'.step = "insert"
           /\ reports' # reports )
         => (ev'.id \in DOMAIN items /\ items[ev'.id].item_status = "lost")
    ]_vars

\* C12: no two Items have the same token, and no step changes the token of an
\* Item that stays in the table.
C12_TokenUniqueImmutable ==
  [][ /\ \A i \in DOMAIN items' : \A j \in DOMAIN items' :
           items'[i].token = items'[j].token => i = j
      /\ \A i \in DOMAIN items :
           i \in DOMAIN items' => items'[i].token = items[i].token
    ]_vars

\* a registration drew the token of an existing Item and was refused
C12_Witness ==
  /\ ev.op = "registerItem"
  /\ ev.outcome = "Failed to register item."
  /\ \E i \in DOMAIN items : items[i].token = ev.token

\* C13: every row is inserted in its initial status: a new Item is active, a
\* new FinderReport (QR report or sighting) is open, a new FoundPost is unclaimed.
C13_InitialStatuses ==
  [][ /\ \A i \in DOMAIN items' \ DOMAIN items : items'[i].item_status = "active"
      /\ \A r \in DOMAIN reports' \ DOMAIN reports : reports'[r].status = "open"
      /\ \A p \in DOMAIN posts' \ DOMAIN posts : posts'[p].status = "unclaimed"
    ]_vars

\* a sighting has just been inserted and its row is open
C13_Witness ==
  /\ ev.op = "submitSighting"
  /\ ev.outcome = "Sighting reported."
  /\ nextReportId \in DOMAIN reports
  /\ reports[nextReportId].status = "open"

\* C20: the owner's setStatus is not restricted by the Item's current status: a
\* request with an allowed status is never answered at the lookup, and its
\* update writes the requested status whatever the status was, changing nothing
\* else.
C20_AnyStatusTransition ==
  [][ /\ ( /\ ev'.op = "setStatus"
           /\ ev'.step = "read"
           /\ ev'.id \in DOMAIN items
           /\ items[ev'.id].user_id = ev'.userId
           /\ ev'.item_status \in {"active", "lost", "recovered"} )
         => ev'.outcome = "pending"
      /\ ( /\ ev'.op = "setStatus"
           /\ ev'.step = "update"
           /\ ev'.id \in DOMAIN items )
         => /\ ev'.outcome = "success"
            /\ items' = [items EXCEPT ![ev'.id].item_status = ev'.item_status]
            /\ UNCHANGED <<reports, posts>>
    ]_vars

\* the owner's second setStatus on their Item wrote active
C20_Witness ==
  /\ ev.op = "setStatus"
  /\ ev.outcome = "success"
  /\ ev.item_status = "active"
  /\ ev.id \in DOMAIN items
  /\ items[ev.id].item_status = "active"
  /\ numReq = 3
  /\ inflight = EmptyBag
  /\ nextItemId = 1

\* C18: submitFinderReport for an existing Item is rejected, with no report
\* created, when the trimmed name has fewer than 2 characters, the trimmed email
\* has no '@' or no dot after the '@', or the trimmed message has fewer than 3
\* characters; when the three fields are valid the handler goes on to the
\* insert, which creates the report of that Item.
C18_FinderFormValidated ==
  [][ /\ ( /\ ev'.op = "submitFinderReport"
           /\ ev'.step = "read"
           /\ ev'.id # NoRow )
         => LET name  == sanitize(ev'.form.finder_name)
                email == sanitize(ev'.form.finder_email)
                msg   == sanitize(ev'.form.message)
                noAt  == \A k \in 1..Len(email) : email[k] # "@"
                noDomain == ~\E a \in 1..Len(email) : \E d \in (a + 2)..(Len(email) - 1) :
                               email[a] = "@" /\ email[d] = "."
                invalid == Len(name) < 2 \/ noAt \/ noDomain \/ Len(msg) < 3
            IN  IF invalid
                  THEN /\ ev'.outcome \in {"Name is too short.", "Invalid email.",
                                           "Message is too short."}
                       /\ AnswersAtOnce
                       /\ UNCHANGED store
                  ELSE ev'.outcome = "pending"
      /\ ( /\ ev'.op = "submitFinderReport"
           /\ ev'.step = "insert"
           /\ ev'.id \in DOMAIN items )
         => /\ ev'.outcome = "Report submitted to owner!"
            /\ DOMAIN reports' = DOMAIN reports \cup {nextReportId'}
            /\ nextReportId' \notin DOMAIN reports
            /\ reports'[nextReportId'].item_id = ev'.id
    ]_vars

\* a form whose name is one character once trimmed was rejected for a real Item
C18_Witness ==
  /\ ev.op = "submitFinderReport"
  /\ ev.id \in DOMAIN items
  /\ ev.form.finder_name = <<"B", " ">>
  /\ ev.outcome = "Name is too short."
  /\ reports = [r \in {} |-> NoRow]

\* C14: the Lost Board shows only Items that are lost when its query reads
\* them: a request with no search text and no category shows exactly the lost
\* Items, a request with filters a subset of them, and the page rendered is the
\* list the query produced.
C14_LostBoardShowsLost ==
  [][ /\ ( ev'.op = "lostBoard" /\ ev'.step = "query" )
         => LET lost == {i \in DOMAIN items : items[i].item_status = "lost"}
            IN  /\ ev'.shown \subseteq lost
                /\ (ev'.query = NoQuery => ev'.shown = lost)
                /\ UNCHANGED store
      /\ ( ev'.op = "lostBoard" /\ ev'.step = "render" )
         => /\ \E q \in Suspended : q.op = "lostBoard" /\ q.shown = ev'.shown
            /\ UNCHANGED store
    ]_vars

\* the board was read unfiltered while one Item was lost and the other was not
C14_Witness ==
  /\ ev.op = "lostBoard"
  /\ ev.step = "query"
  /\ ev.query = NoQuery
  /\ ev.shown # {}
  /\ \E i \in DOMAIN items : i \notin ev.shown

\* C19: registerItem with a valid name and an image that fails to be compressed
\* or stored still creates the Item, with image_url null (a token collision
\* aside); registerItem with a missing name or one longer than 150 characters
\* creates no Item.
C19_ImageFailureNonFatal ==
  [][ ( ev'.op = "registerItem" /\ ev'.step # "requireAuth" )
        => LET name == sanitize(ev'.body.item_name)
           IN  IF name = <<>> \/ Len(name) > 150
                 THEN /\ ev'.outcome = "Item name is required (max 150 characters)."
                      /\ UNCHANGED store
               ELSE ev'.file \in {"upload_error", "sharp_error"}
                      => \/ ev'.outcome = "Failed to register item."
                         \/ /\ ev'.outcome = "Item registered and QR generated."
                            /\ ev'.id \in DOMAIN items' \ DOMAIN items
                            /\ items'[ev'.id].image_url = "null"
    ]_vars

\* C16: a failed store write of setStatus, deleteItem, resolveReport or
\* claimFoundPost is not answered with the success message, and a success
\* message means the change is in the store: the Item has the requested status,
\* the Item is gone, the report is resolved, the post is claimed.
C16_SuccessImpliesWritten ==
  [][ /\ ev'.writeError => ev'.outcome # "success"
      /\ ( ev'.op = "setStatus" /\ ev'.outcome = "success" /\ ev'.id \in DOMAIN items )
         => /\ ev'.id \in DOMAIN items'
            /\ items'[ev'.id].item_status = ev'.item_status
      /\ ( ev'.op = "deleteItem" /\ ev'.outcome = "success" )
         => ev'.id \notin DOMAIN items'
      /\ ( ev'.op = "resolveReport" /\ ev'.outcome = "success" /\ ev'.id \in DOMAIN reports )
         => /\ ev'.id \in DOMAIN reports'
            /\ reports'[ev'.id].status = "resolved"
      /\ ( ev'.op = "claimFoundPost" /\ ev'.outcome = "success" /\ ev'.id \in DOMAIN posts )
         => /\ ev'.id \in DOMAIN posts'
            /\ posts'[ev'.id].status = "claimed"
    ]_vars

\* C17: in no reachable state has a deleteItem request removed FinderReports
\* of an Item that is still in the store, be the request suspended before its
\* second write or finished after it.
C17_NoPartialDelete ==
  /\ \A q \in Suspended :
       (q.op = "deleteItem" /\ q.removed # {}) => q.row \notin DOMAIN items
  /\ (ev.op = "deleteItem" /\ ev.removed # {}) => ev.id \notin DOMAIN items

\* C15: a request without a session to an auth-gated mutation endpoint
\* (registerItem, setStatus, deleteItem, resolveReport, claimFoundPost, account
\* name and password update) never gets past requireAuth, which redirects to
\* the login page and leaves users, items, reports and posts as they were.
C15_UnauthenticatedIsNoOp ==
  [][ /\ ( /\ ev'.op \in {"registerItem", "setStatus", "deleteItem", "resolveReport",
                          "claimFoundPost", "updateAccount", "changePassword"}
           /\ ev'.userId = NoSession )
         => ev'.step = "requireAuth"
      /\ ev'.step = "requireAuth"
         => /\ ev'.outcome = "Please login first."
            /\ AnswersAtOnce
            /\ UNCHANGED <<store, users>>
    ]_vars

\* a password change without a session was turned away while an Item exists
C15_Witness ==
  /\ ev.op = "changePassword"
  /\ ev.userId = NoSession
  /\ ev.step = "requireAuth"
  /\ DOMAIN items # {}

====
